---- MODULE Spec2Model ----
(***************************************************************************)
(* The hardhat end-to-end test file (src/unnamed/part_000): a mocha suite  *)
(* tree whose hooks and tests drive the hardhat binary through shelljs in  *)
(* fixture project directories and assert on the results with chai.        *)
(*                                                                         *)
(* The tool under test is opaque: every spawned process draws its exit     *)
(* code, its output and its effect on the artifacts directory from a small *)
(* sample set.  Text is a sequence of symbols: digits, letters and         *)
(* punctuation the regular expressions look at are one symbol each, fixed  *)
(* phrases are one symbol.                                                 *)
(***************************************************************************)
EXTENDS Integers, Sequences, FiniteSets, TLC

VARIABLES
    osType,        \* os.type()
    processEnv,    \* process.env of the harness: the set of variables set
    fatal,         \* shell.config.fatal: TRUE after shell.set("-e")
    cwd,           \* the shell's working directory
    instances,     \* fixture instance directories that exist
    artifacts,     \* directories that hold an artifacts/ directory
    testDirPath,   \* this.testDirPath of each suite's context
    stack,         \* the runner's position in the suite tree
    pending,       \* suites <<s, 0>> and tests <<s, i>> marked pending by this.skip()
    testState,     \* state of every test
    pc,            \* next statement of the running test body, 0 when none runs
    res,           \* the result of the body's last shell.exec
    asserted,      \* tests in which an assert call evaluated true
    proc,          \* the process spawned last
    clock,         \* the number of things that have run: hooks, bodies, processes
    hookAt,        \* when each hook of each suite ran, 0 when it has not
    hookFailed,    \* suites a before hook of which has thrown
    log,           \* of each test: when it began and ended, why it failed,
                   \* the processes it spawned
    faults         \* spawned processes that departed from the nominal outcome

vars == <<osType, processEnv, fatal, cwd, instances, artifacts, testDirPath,
          stack, pending, testState, pc, res, asserted, proc, clock, hookAt,
          hookFailed, log, faults>>

\* How many spawned processes of one run may depart from their nominal outcome.
MaxFaults == 1

-----------------------------------------------------------------------------
(* Text and regular expressions *)

Digits == {"0", "1", "2", "3", "4", "5", "6", "7", "8", "9"}

Lit(w) == [t |-> "lit", w |-> w]
Digit == [t |-> "digit"]
Opt(r) == [t |-> "opt", r |-> r]
Plus(r) == [t |-> "plus", r |-> r]
Cat(rs) == [t |-> "cat", rs |-> rs]
Bol == [t |-> "bol"]
Eol == [t |-> "eol"]

RECURSIVE MatchEnds(_, _, _)
RECURSIVE CatEnds(_, _, _, _)
RECURSIVE PlusEnds(_, _, _)

\* The positions where a match of r that starts at one of `starts` can end.
MatchEnds(r, s, starts) ==
    CASE r.t = "lit" ->
           {k + Len(r.w) : k \in {j \in starts :
               /\ j + Len(r.w) - 1 <= Len(s)
               /\ SubSeq(s, j, j + Len(r.w) - 1) = r.w}}
      [] r.t = "digit" ->
           {k + 1 : k \in {j \in starts : j <= Len(s) /\ s[j] \in Digits}}
      [] r.t = "opt" -> starts \cup MatchEnds(r.r, s, starts)
      [] r.t = "plus" -> PlusEnds(r.r, s, MatchEnds(r.r, s, starts))
      [] r.t = "cat" -> CatEnds(r.rs, 1, s, starts)
      [] r.t = "bol" -> starts \cap {1}
      [] r.t = "eol" -> starts \cap {Len(s) + 1}

CatEnds(rs, i, s, starts) ==
    IF i > Len(rs) THEN starts
    ELSE CatEnds(rs, i + 1, s, MatchEnds(rs[i], s, starts))

PlusEnds(r, s, ends) ==
    LET more == ends \cup MatchEnds(r, s, ends)
    IN  IF more = ends THEN ends ELSE PlusEnds(r, s, more)

\* RegExp.prototype.test without flags: a match anywhere in the text.
RegExpTest(re, s) == MatchEnds(re, s, 1..(Len(s) + 1)) # {}

versionRegExp ==
    Cat(<<Bol, Plus(Digit), Lit(<<".">>), Plus(Digit), Lit(<<".">>),
          Plus(Digit), Lit(<<"\n">>), Eol>>)

compiledRegExp ==
    Cat(<<Lit(<<"Compiled ">>), Plus(Digit), Lit(<<" Solidity file">>),
          Opt(Lit(<<"s">>)), Lit(<<" successfully">>)>>)

twoPassingRegExp == Lit(<<"2", " passing">>)

zeroPassingRegExp == Lit(<<"0", " passing">>)

notInsideRegExp == Lit(<<"You are not inside">>)

hhCodeRegExp == Cat(<<Lit(<<"H", "H", "1">>), Opt(Lit(<<"5">>))>>)

\* The numbers a text reports as passing: the digit runs right before " passing".
RECURSIVE DigitsValue(_, _, _)
DigitsValue(s, i, j) ==
    IF i > j THEN 0
    ELSE 10 * DigitsValue(s, i, j - 1)
         + (CHOOSE d \in 0..9 : ToString(d) = s[j])

RECURSIVE RunStart(_, _)
RunStart(s, j) == IF j >= 1 /\ s[j] \in Digits THEN RunStart(s, j - 1) ELSE j + 1

PassingCounts(s) ==
    {DigitsValue(s, RunStart(s, k - 1), k - 1) :
        k \in {j \in 2..Len(s) : s[j] = " passing" /\ s[j - 1] \in Digits}}

-----------------------------------------------------------------------------
(* The suite tree *)

hardhatBinary == "node_modules/.bin/hardhat"

Root == "e2e tests"

\* Variant: "no project" declared ahead of "sample projects".
ChildrenNoProjectSecond(s) ==
    CASE s = "e2e tests" -> <<"basic-project", "no project", "sample projects">>
      [] s = "sample projects" ->
           <<"basic sample project", "advanced sample project",
             "advanced TypeScript sample project">>
      [] OTHER -> <<>>

Children(s) ==
    CASE s = "e2e tests" -> <<"basic-project", "sample projects", "no project">>
      [] s = "sample projects" ->
           <<"basic sample project", "advanced sample project",
             "advanced TypeScript sample project">>
      [] OTHER -> <<>>

Suites ==
    {"e2e tests", "basic-project", "sample projects", "basic sample project",
     "advanced sample project", "advanced TypeScript sample project",
     "no project"}

Parent(s) ==
    IF s = Root THEN "none"
    ELSE CHOOSE p \in Suites : \E i \in 1..Len(Children(p)) : Children(p)[i] = s

\* Statements of a test body.
Exec(cmd) == [op |-> "exec", cmd |-> cmd]
AssertEqualCode(n) == [op |-> "assert.equal", expected |-> n]
AssertMatch(what, re) == [op |-> "assert.match", what |-> what, re |-> re]
AssertNotMatch(what, re) == [op |-> "assert.notMatch", what |-> what, re |-> re]
AssertArtifactsExist == [op |-> "assert.isTrue"]
ShellSet(flag) == [op |-> "shell.set", flag |-> flag]

\* Variant: the version test without its assertions.
printVersionUnchecked == <<Exec("node_modules/.bin/hardhat --version")>>

printVersionBody ==
    <<Exec("node_modules/.bin/hardhat --version"),
      AssertEqualCode(0),
      AssertMatch("stdout", versionRegExp)>>

\* Variant: the compile test without its check of the artifacts directory.
shouldCompileBodyNoArtifactsCheck ==
    <<Exec("node_modules/.bin/hardhat clean"),
      AssertEqualCode(0),
      Exec("node_modules/.bin/hardhat compile"),
      AssertEqualCode(0),
      AssertMatch("stdout", compiledRegExp),
      Exec("node_modules/.bin/hardhat clean"),
      AssertEqualCode(0)>>

shouldCompileBody ==
    <<Exec("node_modules/.bin/hardhat clean"),
      AssertEqualCode(0),
      Exec("node_modules/.bin/hardhat compile"),
      AssertEqualCode(0),
      AssertArtifactsExist,
      AssertMatch("stdout", compiledRegExp),
      Exec("node_modules/.bin/hardhat clean"),
      AssertEqualCode(0)>>

testProgrammaticallyBody ==
    <<Exec("node_modules/.bin/hardhat clean"),
      AssertEqualCode(0),
      Exec("node_modules/.bin/hardhat run ./scripts/multi-run-test.js"),
      AssertEqualCode(0),
      AssertMatch("stdout", twoPassingRegExp),
      AssertNotMatch("stdout", zeroPassingRegExp),
      Exec("node_modules/.bin/hardhat clean"),
      AssertEqualCode(0)>>

acceptTestFilesBody ==
    <<Exec("node_modules/.bin/hardhat clean"),
      AssertEqualCode(0),
      Exec("node_modules/.bin/hardhat test test/simple.js"),
      AssertEqualCode(0),
      Exec("node_modules/.bin/hardhat test ./test/simple.js"),
      AssertEqualCode(0)>>

\* Variant: the parallel test without its leading clean.
testsInParallelBodyNoLeadingClean ==
    <<Exec("node_modules/.bin/hardhat test --parallel"),
      AssertEqualCode(0),
      AssertMatch("stdout", twoPassingRegExp),
      Exec("node_modules/.bin/hardhat clean"),
      AssertEqualCode(0)>>

testsInParallelBody ==
    <<Exec("node_modules/.bin/hardhat clean"),
      AssertEqualCode(0),
      Exec("node_modules/.bin/hardhat test --parallel"),
      AssertEqualCode(0),
      AssertMatch("stdout", twoPassingRegExp),
      Exec("node_modules/.bin/hardhat clean"),
      AssertEqualCode(0)>>

\* Variant: the compile-error test switching back to fail-fast mode after
\* its assertions.
compileErrorBodyRestoreLast ==
    <<ShellSet("+e"),
      Exec("node_modules/.bin/hardhat compile"),
      AssertEqualCode(1),
      AssertMatch("stderr", notInsideRegExp),
      AssertMatch("stderr", hhCodeRegExp),
      ShellSet("-e")>>

\* Variant: the compile-error test without its switch to tolerant mode.
compileErrorBodyStrict ==
    <<Exec("node_modules/.bin/hardhat compile"),
      ShellSet("-e"),
      AssertEqualCode(1),
      AssertMatch("stderr", notInsideRegExp),
      AssertMatch("stderr", hhCodeRegExp)>>

compileErrorBody ==
    <<ShellSet("+e"),
      Exec("node_modules/.bin/hardhat compile"),
      ShellSet("-e"),
      AssertEqualCode(1),
      AssertMatch("stderr", notInsideRegExp),
      AssertMatch("stderr", hhCodeRegExp)>>

basicSuggestedCommands ==
    <<"node_modules/.bin/hardhat accounts",
      "node_modules/.bin/hardhat compile",
      "node_modules/.bin/hardhat test",
      "node scripts/sample-script.js">>

advancedSuggestedCommands ==
    <<"node_modules/.bin/hardhat compile",
      "node_modules/.bin/hardhat test",
      "node_modules/.bin/hardhat run scripts/deploy.js",
      "node scripts/deploy.js",
      "REPORT_GAS=true npx hardhat test",
      "node_modules/.bin/hardhat coverage",
      "npx eslint '**/*.js'",
      "npx eslint '**/*.js' --fix",
      "npx prettier '**/*.{json,sol,md}' --check",
      "npx solhint 'contracts/**/*.sol'",
      "npx solhint 'contracts/**/*.sol' --fix">>

advancedTsSuggestedCommands ==
    <<"node_modules/.bin/hardhat compile",
      "node_modules/.bin/hardhat test",
      "node_modules/.bin/hardhat run scripts/deploy.ts",
      "TS_NODE_FILES=true ts-node scripts/deploy.ts",
      "REPORT_GAS=true npx hardhat test",
      "node_modules/.bin/hardhat coverage",
      "npx eslint '**/*.{ts,js}'",
      "npx eslint '**/*.{ts,js}' --fix",
      "npx prettier '**/*.{json,sol,md}' --check",
      "npx solhint 'contracts/**/*.sol'",
      "npx solhint 'contracts/**/*.sol' --fix">>

SuggestedCommands(s) ==
    CASE s = "basic sample project" -> basicSuggestedCommands
      [] s = "advanced sample project" -> advancedSuggestedCommands
      [] s = "advanced TypeScript sample project" -> advancedTsSuggestedCommands
      [] OTHER -> <<>>

\* The body the suggestedCommand loop gives each generated test.
suggestedCommandBody(suggestedCommand) == <<Exec(suggestedCommand)>>

\* Variant: the suggestedCommand loop walking its list from the end.
TestsReversedLoop(s) ==
    CASE s = "basic-project" ->
           <<printVersionBody, shouldCompileBody, testProgrammaticallyBody,
             acceptTestFilesBody, testsInParallelBody>>
      [] s = "no project" -> <<printVersionBody, compileErrorBody>>
      [] OTHER ->
           [i \in 1..Len(SuggestedCommands(s)) |->
               suggestedCommandBody(
                   SuggestedCommands(s)[Len(SuggestedCommands(s)) + 1 - i])]

\* The test bodies of a suite, in declaration order.
Tests(s) ==
    CASE s = "basic-project" ->
           <<printVersionBody, shouldCompileBody, testProgrammaticallyBody,
             acceptTestFilesBody, testsInParallelBody>>
      [] s = "no project" -> <<printVersionBody, compileErrorBody>>
      [] OTHER ->
           [i \in 1..Len(SuggestedCommands(s)) |->
               suggestedCommandBody(SuggestedCommands(s)[i])]

AllTests == {<<s, i>> : s \in Suites, i \in 1..11} \cap
            UNION {{<<s, i>> : i \in 1..Len(Tests(s))} : s \in Suites}

\* Hooks.
SetFailFast == [kind |-> "shell.set(-e)"]
UseFixture(project) == [kind |-> "useFixture", project |-> project]
SkipOnWindows == [kind |-> "skipOnWindows"]
Generate(flag) == [kind |-> "generate", flag |-> flag]
ReleaseFixture(project) == [kind |-> "release", project |-> project]

\* Variant: the sample-project suites declaring the generation hook before
\* useFixture.
BeforeHooksGenerateFirst(s) ==
    CASE s = "e2e tests" -> <<SetFailFast>>
      [] s = "basic-project" -> <<UseFixture("basic-project")>>
      [] s = "sample projects" -> <<SkipOnWindows>>
      [] s = "basic sample project" ->
           <<Generate("HARDHAT_CREATE_BASIC_SAMPLE_PROJECT_WITH_DEFAULTS"),
             UseFixture("basic-sample-project")>>
      [] s = "advanced sample project" ->
           <<Generate("HARDHAT_CREATE_ADVANCED_SAMPLE_PROJECT_WITH_DEFAULTS"),
             UseFixture("advanced-sample-project")>>
      [] s = "advanced TypeScript sample project" ->
           <<Generate("HARDHAT_CREATE_ADVANCED_TYPESCRIPT_SAMPLE_PROJECT_WITH_DEFAULTS"),
             UseFixture("advanced-ts-sample-project")>>
      [] s = "no project" -> <<UseFixture("empty")>>

BeforeHooks(s) ==
    CASE s = "e2e tests" -> <<SetFailFast>>
      [] s = "basic-project" -> <<UseFixture("basic-project")>>
      [] s = "sample projects" -> <<SkipOnWindows>>
      [] s = "basic sample project" ->
           <<UseFixture("basic-sample-project"),
             Generate("HARDHAT_CREATE_BASIC_SAMPLE_PROJECT_WITH_DEFAULTS")>>
      [] s = "advanced sample project" ->
           <<UseFixture("advanced-sample-project"),
             Generate("HARDHAT_CREATE_ADVANCED_SAMPLE_PROJECT_WITH_DEFAULTS")>>
      [] s = "advanced TypeScript sample project" ->
           <<UseFixture("advanced-ts-sample-project"),
             Generate("HARDHAT_CREATE_ADVANCED_TYPESCRIPT_SAMPLE_PROJECT_WITH_DEFAULTS")>>
      [] s = "no project" -> <<UseFixture("empty")>>

\* The teardown useFixture registers with the fixture it acquires.
AfterHooks(s) ==
    LET uses == SelectSeq(BeforeHooks(s), LAMBDA h : h.kind = "useFixture")
    IN  [i \in 1..Len(uses) |-> ReleaseFixture(uses[i].project)]

GenerationFlags ==
    {"HARDHAT_CREATE_BASIC_SAMPLE_PROJECT_WITH_DEFAULTS",
     "HARDHAT_CREATE_ADVANCED_SAMPLE_PROJECT_WITH_DEFAULTS",
     "HARDHAT_CREATE_ADVANCED_TYPESCRIPT_SAMPLE_PROJECT_WITH_DEFAULTS"}

-----------------------------------------------------------------------------
(* The tool under test, as the harness sees it *)

VersionText == <<"2", ".", "1", "2", ".", "0", "\n">>
VersionPrefixed == <<"v", "2", ".", "1", "2", ".", "0", "\n">>

CompiledTwo == <<"Compiled ", "2", " Solidity file", "s", " successfully", "\n">>
CompiledOne == <<"Compiled ", "1", " Solidity file", " successfully", "\n">>
NothingToCompile == <<"Nothing to compile", "\n">>

TwoPassing == <<"\n", "2", " passing", "\n">>
TwelvePassing == <<"\n", "1", "2", " passing", "\n">>
ZeroPassing == <<"\n", "0", " passing", "\n">>
TwoRunsPassing == <<"\n", "2", " passing", "\n", "\n", "2", " passing", "\n">>
StaleSecondRun == <<"\n", "2", " passing", "\n", "\n", "0", " passing", "\n">>

NotInsideHH1 ==
    <<"Error ", "H", "H", "1", ": ", "You are not inside", " a Hardhat project.", "\n">>
NotInsideHH15 ==
    <<"Error ", "H", "H", "1", "5", ": ", "You are not inside",
      " a project and Hardhat failed to initialize.", "\n">>
NotInsideNoCode == <<"You are not inside", " a Hardhat project.", "\n">>
ConfigErrorHH8 ==
    <<"Error ", "H", "H", "8", ": ", "There's one or more errors in your config file", "\n">>
CodeOnlyHH12 == <<"Error ", "H", "H", "1", "2", ": ", "Invalid big number", "\n">>

SampleProjectDirs ==
    {"basic-sample-project", "advanced-sample-project", "advanced-ts-sample-project"}

CmdKind(cmd) ==
    CASE cmd = "node_modules/.bin/hardhat" -> "generate"
      [] cmd = "node_modules/.bin/hardhat --version" -> "version"
      [] cmd = "node_modules/.bin/hardhat clean" -> "clean"
      [] cmd = "node_modules/.bin/hardhat compile" -> "compile"
      [] cmd = "node_modules/.bin/hardhat run ./scripts/multi-run-test.js" -> "multiRun"
      [] cmd \in {"node_modules/.bin/hardhat test test/simple.js",
                  "node_modules/.bin/hardhat test ./test/simple.js",
                  "node_modules/.bin/hardhat test --parallel",
                  "node_modules/.bin/hardhat test"} -> "test"
      [] OTHER -> "other"

Outcome(code, stdout, stderr, art) ==
    [code |-> code, stdout |-> stdout, stderr |-> stderr, art |-> art]

\* What a process started with cmd in dir may do.
Outcomes(cmd, dir) ==
    LET k == CmdKind(cmd)
    IN  CASE k = "generate" \/ dir \in SampleProjectDirs ->
               {Outcome(c, <<>>, <<>>,
                        IF c = 0 /\ k \in {"compile", "test"} THEN "create" ELSE "keep") :
                   c \in {0, 1}}
          [] k = "compile" /\ dir = "empty" ->
               {Outcome(c, <<>>, e, "keep") :
                   c \in {0, 1},
                   e \in {NotInsideHH1, NotInsideHH15, NotInsideNoCode,
                          ConfigErrorHH8, CodeOnlyHH12}}
               \cup {Outcome(2, <<>>, NotInsideHH1, "keep")}
          [] k = "version" ->
               {Outcome(0, o, <<>>, "keep") : o \in {VersionText, VersionPrefixed}}
               \cup {Outcome(1, <<>>, <<>>, "keep")}
          [] k = "clean" ->
               {Outcome(0, <<>>, <<>>, "remove"), Outcome(1, <<>>, <<>>, "keep")}
          [] k = "compile" ->
               {Outcome(0, o, <<>>, a) :
                   o \in {CompiledTwo, CompiledOne, NothingToCompile},
                   a \in {"create", "keep"}}
               \cup {Outcome(1, <<>>, <<>>, "keep")}
          [] k = "multiRun" ->
               {Outcome(0, o, <<>>, "create") :
                   o \in {TwoRunsPassing, StaleSecondRun, TwelvePassing}}
               \cup {Outcome(1, <<>>, <<>>, "keep")}
          [] k = "test" ->
               {Outcome(0, o, <<>>, "create") :
                   o \in {TwoPassing, TwelvePassing, ZeroPassing}}
               \cup {Outcome(1, <<>>, <<>>, "keep")}
          [] OTHER -> {Outcome(c, <<>>, <<>>, "keep") : c \in {0, 1}}

\* What the tool does when it and the fixture are as the tests expect.
Nominal(cmd, dir) ==
    LET k == CmdKind(cmd)
    IN  CASE k = "generate" \/ dir \in SampleProjectDirs ->
               Outcome(0, <<>>, <<>>, IF k \in {"compile", "test"} THEN "create" ELSE "keep")
          [] k = "compile" /\ dir = "empty" -> Outcome(1, <<>>, NotInsideHH1, "keep")
          [] k = "version" -> Outcome(0, VersionText, <<>>, "keep")
          [] k = "clean" -> Outcome(0, <<>>, <<>>, "remove")
          [] k = "compile" -> Outcome(0, CompiledTwo, <<>>, "create")
          [] k = "multiRun" -> Outcome(0, TwoRunsPassing, <<>>, "create")
          [] k = "test" -> Outcome(0, TwoPassing, <<>>, "create")
          [] OTHER -> Outcome(0, <<>>, <<>>, "keep")

ApplyArt(art, dir) ==
    CASE art = "create" -> artifacts \cup {dir}
      [] art = "remove" -> artifacts \ {dir}
      [] OTHER -> artifacts

-----------------------------------------------------------------------------
(* The runner *)

Frame(s, phase, i) == [suite |-> s, phase |-> phase, i |-> i]

Top == stack[Len(stack)]

SetTop(st, f) == [st EXCEPT ![Len(st)] = f]

\* The runner's walk between hooks and tests: hooks, then the suite's tests,
\* then its child suites in declaration order, then its after hooks.
RECURSIVE Normalize(_)
Normalize(st) ==
    IF st = <<>> THEN st
    ELSE LET f == st[Len(st)]
         IN  CASE f.phase = "before" /\ f.i > Len(BeforeHooks(f.suite)) ->
                    Normalize(SetTop(st, Frame(f.suite, "tests", 1)))
               [] f.phase = "tests" /\ f.i > Len(Tests(f.suite)) ->
                    Normalize(SetTop(st, Frame(f.suite, "suites", 1)))
               [] f.phase = "suites" /\ f.i > Len(Children(f.suite)) ->
                    Normalize(SetTop(st, Frame(f.suite, "after", 1)))
               [] f.phase = "suites" /\ f.i <= Len(Children(f.suite)) ->
                    Normalize(Append(SetTop(st, Frame(f.suite, "suites", f.i + 1)),
                                     Frame(Children(f.suite)[f.i], "before", 1)))
               [] f.phase = "after" /\ f.i > Len(AfterHooks(f.suite)) ->
                    Normalize(SubSeq(st, 1, Len(st) - 1))
               [] OTHER -> st

NextInPhase == Normalize(SetTop(stack, Frame(Top.suite, Top.phase, Top.i + 1)))

\* Variant: a failed hook that does not stop its suite.
ContinueAfterHookFailure ==
    Normalize(SetTop(stack, Frame(Top.suite, Top.phase, Top.i + 1)))

\* A hook that fails ends its suite: neither its tests nor its child suites
\* run, its after hooks do.
AbortSuite == Normalize(SetTop(stack, Frame(Top.suite, "after", 1)))

\* A skip in a before hook drops the suite's remaining before hooks.
DropHooks == Normalize(SetTop(stack, Frame(Top.suite, "tests", 1)))

RECURSIVE SuiteIsPending(_)
SuiteIsPending(s) ==
    \/ <<s, 0>> \in pending
    \/ s # Root /\ SuiteIsPending(Parent(s))

TestIsPending(t) == t \in pending \/ SuiteIsPending(t[1])

NoResult == [code |-> -1, stdout |-> <<>>, stderr |-> <<>>]

NoProc ==
    [cmd |-> "", env |-> {}, cwd |-> "", fatal |-> FALSE, code |-> -1,
     suite |-> "", n |-> 0, inHook |-> FALSE, exited |-> TRUE]

\* shell.exec without a callback is synchronous: it returns, or throws, once
\* the child has exited.
ExecIsSynchronous == TRUE

Spawned(cmd, env, out, s, n, inHook) ==
    [cmd |-> cmd, env |-> env, cwd |-> cwd, fatal |-> fatal, code |-> out.code,
     suite |-> s, n |-> n, inHook |-> inHook, exited |-> ExecIsSynchronous]

\* What the log keeps of a process a test spawned: what it was, how it ended,
\* whether the working directory held an artifacts directory once it had
\* ended, and when.
Logged(cmd, out, artifactsAfter, at) ==
    [cmd |-> cmd, code |-> out.code, stdout |-> out.stdout, stderr |-> out.stderr,
     artifactsAfter |-> artifactsAfter, at |-> at]

HookKinds ==
    {"shell.set(-e)", "useFixture", "skipOnWindows", "generate", "generate.exec",
     "release"}

NotRun == [begun |-> 0, ended |-> 0, failure |-> "", spawns |-> <<>>]

\* Variant: shell.exec that returns the result whatever the exit code.
ExecNeverThrows(isFatal, code) == FALSE

\* shell.exec throws on a non-zero exit when config.fatal is set.
ExecThrows(isFatal, code) == isFatal /\ code # 0

\* The environment shell.exec gives the child: options.env, or process.env.
GenerationEnv(flag) == processEnv \cup {flag}

\* Variant: the options of one exec call staying in force for the next.
ChildEnvOfLastExec == processEnv \cup (proc.env \cap GenerationFlags)

ChildEnv == processEnv

WithinFaults(cmd, out) == out = Nominal(cmd, cwd) \/ faults < MaxFaults

CountFault(cmd, out) == IF out = Nominal(cmd, cwd) THEN faults ELSE faults + 1

CurHook ==
    IF Top.phase = "before" THEN BeforeHooks(Top.suite)[Top.i]
    ELSE AfterHooks(Top.suite)[Top.i]

InHook(kind) ==
    /\ stack # <<>>
    /\ Top.phase \in {"before", "after"}
    /\ ~SuiteIsPending(Top.suite)
    /\ CurHook.kind = kind

\* The current hook runs: it is the next thing on the clock.
HookRuns ==
    /\ clock' = clock + 1
    /\ hookAt' = [hookAt EXCEPT ![<<Top.suite, CurHook.kind>>] = clock + 1]

Init ==
    /\ osType \in {"Linux", "Windows_NT"}
    /\ processEnv = {"PATH", "CI"}
    /\ fatal = FALSE
    /\ cwd = "e2e"
    /\ instances = {}
    /\ artifacts = {}
    /\ testDirPath = [s \in Suites |-> "undefined"]
    /\ stack = Normalize(<<Frame(Root, "before", 1)>>)
    /\ pending = {}
    /\ testState = [t \in AllTests |-> "Pending"]
    /\ pc = 0
    /\ res = NoResult
    /\ asserted = {}
    /\ proc = NoProc
    /\ clock = 0
    /\ hookAt = [h \in Suites \X HookKinds |-> 0]
    /\ hookFailed = {}
    /\ log = [t \in AllTests |-> NotRun]
    /\ faults = 0

\* A hook of a pending suite is not run.
SkipHook ==
    /\ stack # <<>>
    /\ Top.phase \in {"before", "after"}
    /\ SuiteIsPending(Top.suite)
    /\ stack' = NextInPhase
    /\ UNCHANGED <<osType, processEnv, fatal, cwd, instances, artifacts,
                   testDirPath, pending, testState, pc, res, asserted, proc,
                   clock, hookAt, hookFailed, log, faults>>

\* before(function () { shell.set("-e"); })
HookSetFailFast ==
    /\ InHook("shell.set(-e)")
    /\ fatal' = TRUE
    /\ HookRuns
    /\ stack' = NextInPhase
    /\ UNCHANGED <<osType, processEnv, cwd, instances, artifacts, testDirPath,
                   pending, testState, pc, res, asserted, proc, hookFailed,
                   log, faults>>

\* useFixture(project): the suite gets a fresh copy of the fixture project and
\* the shell moves into it.
HookUseFixture ==
    /\ InHook("useFixture")
    /\ instances' = instances \cup {CurHook.project}
    /\ artifacts' = artifacts \ {CurHook.project}
    /\ testDirPath' = [testDirPath EXCEPT ![Top.suite] = CurHook.project]
    /\ cwd' = CurHook.project
    /\ HookRuns
    /\ stack' = NextInPhase
    /\ UNCHANGED <<osType, processEnv, fatal, pending, testState, pc, res,
                   asserted, proc, hookFailed, log, faults>>

\* The fixture's teardown: the copy is deleted.
HookReleaseFixture ==
    /\ InHook("release")
    /\ instances' = instances \ {CurHook.project}
    /\ artifacts' = artifacts \ {CurHook.project}
    /\ HookRuns
    /\ stack' = NextInPhase
    /\ UNCHANGED <<osType, processEnv, fatal, cwd, testDirPath, pending,
                   testState, pc, res, asserted, proc, hookFailed, log, faults>>

\* Variant: a skip that marks the suite's own tests and not its child suites.
HookSkipOwnTestsOnly ==
    /\ InHook("skipOnWindows")
    /\ HookRuns
    /\ IF osType = "Windows_NT"
       THEN /\ pending' = pending
                   \cup {<<Top.suite, i>> : i \in 1..Len(Tests(Top.suite))}
            /\ stack' = DropHooks
       ELSE /\ pending' = pending
            /\ stack' = NextInPhase
    /\ UNCHANGED <<osType, processEnv, fatal, cwd, instances, artifacts,
                   testDirPath, testState, pc, res, asserted, proc, hookFailed,
                   log, faults>>

\* before(function () { if (os.type() === "Windows_NT") this.skip(); })
HookSkipOnWindows ==
    /\ InHook("skipOnWindows")
    /\ HookRuns
    /\ IF osType = "Windows_NT"
       THEN /\ pending' = pending
                   \cup {<<Top.suite, i>> : i \in 1..Len(Tests(Top.suite))}
                   \cup {<<Children(Top.suite)[i], 0>> : i \in 1..Len(Children(Top.suite))}
            /\ stack' = DropHooks
       ELSE /\ pending' = pending
            /\ stack' = NextInPhase
    /\ UNCHANGED <<osType, processEnv, fatal, cwd, instances, artifacts,
                   testDirPath, testState, pc, res, asserted, proc, hookFailed,
                   log, faults>>

\* before(function () { shell.exec(hardhatBinary, { env: {...process.env, FLAG: "true"} }); })
HookGenerate ==
    /\ InHook("generate")
    /\ \E out \in Outcomes(hardhatBinary, cwd) :
          /\ WithinFaults(hardhatBinary, out)
          /\ faults' = CountFault(hardhatBinary, out)
          /\ proc' = Spawned(hardhatBinary, GenerationEnv(CurHook.flag), out,
                             Top.suite, Top.i, TRUE)
          /\ artifacts' = ApplyArt(out.art, cwd)
          /\ clock' = clock + 2
          /\ hookAt' = [hookAt EXCEPT ![<<Top.suite, "generate">>] = clock + 1,
                                      ![<<Top.suite, "generate.exec">>] = clock + 2]
          /\ IF ExecThrows(fatal, out.code)
             THEN /\ hookFailed' = hookFailed \cup {Top.suite}
                  /\ stack' = AbortSuite
             ELSE /\ hookFailed' = hookFailed
                  /\ stack' = NextInPhase
    /\ UNCHANGED <<osType, processEnv, fatal, cwd, instances, testDirPath,
                   pending, testState, pc, res, asserted, log>>

-----------------------------------------------------------------------------
(* Tests *)

AtTest == stack # <<>> /\ Top.phase = "tests"

CurTest == <<Top.suite, Top.i>>

CurBody == Tests(Top.suite)[Top.i]

AtStatement(op) ==
    /\ AtTest
    /\ pc >= 1
    /\ pc <= Len(CurBody)
    /\ CurBody[pc].op = op

\* A pending test is reported and not run.
SkipTest ==
    /\ AtTest
    /\ pc = 0
    /\ TestIsPending(CurTest)
    /\ testState' = [testState EXCEPT ![CurTest] = "Skipped"]
    /\ stack' = NextInPhase
    /\ UNCHANGED <<osType, processEnv, fatal, cwd, instances, artifacts,
                   testDirPath, pending, pc, res, asserted, proc, clock, hookAt,
                   hookFailed, log, faults>>

BeginTest ==
    /\ AtTest
    /\ pc = 0
    /\ ~TestIsPending(CurTest)
    /\ testState' = [testState EXCEPT ![CurTest] = "Running"]
    /\ pc' = 1
    /\ clock' = clock + 1
    /\ log' = [log EXCEPT ![CurTest].begun = clock + 1]
    /\ UNCHANGED <<osType, processEnv, fatal, cwd, instances, artifacts,
                   testDirPath, stack, pending, res, asserted, proc, hookAt,
                   hookFailed, faults>>

\* Variant: a failed test that is run again.
FailAndRetry ==
    /\ testState' = [testState EXCEPT ![CurTest] = "Failed"]
    /\ pc' = 0
    /\ res' = NoResult
    /\ stack' = stack

\* An exception leaves the body: the test fails and the runner goes on.
Fail ==
    /\ testState' = [testState EXCEPT ![CurTest] = "Failed"]
    /\ pc' = 0
    /\ res' = NoResult
    /\ stack' = NextInPhase

\* shell.exec(cmd)
ExecStep ==
    /\ AtStatement("exec")
    /\ LET cmd == CurBody[pc].cmd
       IN  \E out \in Outcomes(cmd, cwd) :
              /\ WithinFaults(cmd, out)
              /\ faults' = CountFault(cmd, out)
              /\ proc' = Spawned(cmd, ChildEnv, out, Top.suite, Top.i, FALSE)
              /\ artifacts' = ApplyArt(out.art, cwd)
              /\ IF ExecThrows(fatal, out.code)
                 THEN /\ Fail
                      /\ clock' = clock + 2
                      /\ log' = [log EXCEPT
                            ![CurTest].spawns =
                                Append(@, Logged(cmd, out, cwd \in artifacts', clock + 1)),
                            ![CurTest].failure = "CommandFailed",
                            ![CurTest].ended = clock + 2]
                 ELSE /\ res' = [code |-> out.code, stdout |-> out.stdout,
                                 stderr |-> out.stderr]
                      /\ pc' = pc + 1
                      /\ clock' = clock + 1
                      /\ log' = [log EXCEPT
                            ![CurTest].spawns =
                                Append(@, Logged(cmd, out, cwd \in artifacts', clock + 1))]
                      /\ UNCHANGED <<testState, stack>>
    /\ UNCHANGED <<osType, processEnv, fatal, cwd, instances, testDirPath,
                   pending, asserted, hookAt, hookFailed>>

\* What chai decides for an assert statement of a body.
AssertionHolds(stmt) ==
    CASE stmt.op = "assert.equal" -> res.code = stmt.expected
      [] stmt.op = "assert.match" -> RegExpTest(stmt.re, res[stmt.what])
      [] stmt.op = "assert.notMatch" -> ~RegExpTest(stmt.re, res[stmt.what])
      [] stmt.op = "assert.isTrue" -> testDirPath[Top.suite] \in artifacts

AssertOps == {"assert.equal", "assert.match", "assert.notMatch", "assert.isTrue"}

AssertStep ==
    /\ \E op \in AssertOps : AtStatement(op)
    /\ IF AssertionHolds(CurBody[pc])
       THEN /\ asserted' = asserted \cup {CurTest}
            /\ pc' = pc + 1
            /\ UNCHANGED <<testState, res, stack, clock, log>>
       ELSE /\ Fail
            /\ clock' = clock + 1
            /\ log' = [log EXCEPT ![CurTest].failure = "AssertionError",
                                  ![CurTest].ended = clock + 1]
            /\ UNCHANGED asserted
    /\ UNCHANGED <<osType, processEnv, fatal, cwd, instances, artifacts,
                   testDirPath, pending, proc, hookAt, hookFailed, faults>>

\* shell.set("+e") / shell.set("-e")
ShellSetStep ==
    /\ AtStatement("shell.set")
    /\ fatal' = (CurBody[pc].flag = "-e")
    /\ pc' = pc + 1
    /\ UNCHANGED <<osType, processEnv, cwd, instances, artifacts, testDirPath,
                   stack, pending, testState, res, asserted, proc, clock,
                   hookAt, hookFailed, log, faults>>

\* The body returned: the test passes.
EndTest ==
    /\ AtTest
    /\ pc = Len(CurBody) + 1
    /\ testState' = [testState EXCEPT ![CurTest] = "Passed"]
    /\ pc' = 0
    /\ res' = NoResult
    /\ clock' = clock + 1
    /\ log' = [log EXCEPT ![CurTest].ended = clock + 1]
    /\ stack' = NextInPhase
    /\ UNCHANGED <<osType, processEnv, fatal, cwd, instances, artifacts,
                   testDirPath, pending, asserted, proc, hookAt, hookFailed,
                   faults>>

Next ==
    \/ SkipHook
    \/ HookSetFailFast
    \/ HookUseFixture
    \/ HookReleaseFixture
    \/ HookSkipOnWindows
    \/ HookGenerate
    \/ SkipTest
    \/ BeginTest
    \/ ExecStep
    \/ AssertStep
    \/ ShellSetStep
    \/ EndTest

Spec == Init /\ [][Next]_vars

Done == stack = <<>>

-----------------------------------------------------------------------------
(* Properties *)

SampleSuites ==
    {"basic sample project", "advanced sample project",
     "advanced TypeScript sample project"}

SkipScope == SampleSuites \cup {"sample projects"}

FailedBy(t, cause) == log[t].failure = cause

HookRan(s, kind) == hookAt[<<s, kind>>] > 0

ProcInTest == proc.cmd # "" /\ ~proc.inHook

ProcTest == <<proc.suite, proc.n>>

CompileTest == <<"basic-project", 2>>

ProgrammaticTest == <<"basic-project", 3>>

ParallelTest == <<"basic-project", 5>>

CompileErrorTest == <<"no project", 2>>

\* C1: a process a test spawns that exits non-zero while fail-fast mode is in
\* force fails the test; one that exits non-zero in tolerant mode hands its
\* exit code to the body and does not fail the test, which only an assertion
\* can then fail.
C1_FailFastAndTolerantExec ==
    (ProcInTest /\ proc.code # 0) =>
        /\ proc.fatal =>
              /\ testState[ProcTest] = "Failed"
              /\ FailedBy(ProcTest, "CommandFailed")
        /\ ~proc.fatal =>
              /\ ~FailedBy(ProcTest, "CommandFailed")
              /\ testState[ProcTest] = "Running" => res.code = proc.code
              /\ testState[ProcTest] = "Failed" => FailedBy(ProcTest, "AssertionError")

\* A strict-mode failure has happened and the tolerant compile returned 1 to
\* a test that then passed.
C1_Witness ==
    /\ \E t \in AllTests : FailedBy(t, "CommandFailed")
    /\ ProcInTest
    /\ ProcTest = CompileErrorTest
    /\ ~proc.fatal
    /\ proc.code = 1
    /\ testState[CompileErrorTest] = "Passed"

\* C2 as stated: no test passes unless an assertion evaluated true in it.
C2_Original == \A t \in AllTests : testState[t] = "Passed" => t \in asserted

\* C2: outside the sample-project suites no test passes unless an assertion
\* evaluated true in its body; a suggested-command test evaluates no
\* assertion, passes only if its command exited 0 and fails, by shell.exec
\* throwing, only if it exited non-zero.
C2_PassNeedsAssertionOrZeroExit ==
    \A t \in AllTests :
        IF t[1] \in SampleSuites
        THEN /\ t \notin asserted
             /\ testState[t] = "Passed" =>
                   Len(log[t].spawns) = 1 /\ log[t].spawns[1].code = 0
             /\ testState[t] = "Failed" =>
                   /\ FailedBy(t, "CommandFailed")
                   /\ Len(log[t].spawns) = 1 /\ log[t].spawns[1].code # 0
        ELSE testState[t] = "Passed" => t \in asserted

C2_Witness ==
    /\ testState[<<"basic sample project", 1>>] = "Passed"
    /\ testState[<<"basic sample project", 2>>] = "Failed"
    /\ <<"basic sample project", 1>> \notin asserted
    /\ testState[CompileTest] = "Passed"

\* C3: on Windows_NT nothing of "sample projects" and its three child suites
\* runs but the skip check itself: no test body, no fixture acquisition, no
\* project generation, no teardown, no process; their tests end skipped, and
\* the tests of "basic-project" and "no project" are still run.
C3_WindowsSkipsSampleProjects ==
    osType = "Windows_NT" =>
        /\ \A s \in SkipScope : \A k \in HookKinds :
              HookRan(s, k) => s = "sample projects" /\ k = "skipOnWindows"
        /\ \A t \in AllTests :
              t[1] \in SkipScope =>
                  log[t] = NotRun /\ testState[t] \in {"Pending", "Skipped"}
        /\ proc.suite \notin SkipScope
        /\ instances \cap SampleProjectDirs = {}
        /\ Done =>
              /\ \A t \in AllTests :
                    IF t[1] \in SkipScope
                    THEN testState[t] = "Skipped"
                    ELSE /\ testState[t] \in {"Passed", "Failed"}
                         /\ log[t].begun > 0
              /\ HookRan("basic-project", "useFixture")
              /\ HookRan("no project", "useFixture")

C3_Witness ==
    /\ osType = "Windows_NT"
    /\ Done
    /\ HookRan("sample projects", "skipOnWindows")
    /\ testState[<<"advanced sample project", 11>>] = "Skipped"
    /\ testState[CompileTest] = "Passed"
    /\ testState[CompileErrorTest] = "Passed"

\* C4: in each sample-project suite the suggested commands are run one test
\* per entry, in list order, an entry's test only after the test of the entry
\* before it has ended, compile before test; and the suite's tests all pass
\* only if every command of the list was run and exited 0.
C4_SuggestedCommandsInOrder ==
    \A s \in SampleSuites :
        LET all == 1..Len(SuggestedCommands(s))
            ran(n) == log[<<s, n>>].spawns # <<>>
            at(n) == log[<<s, n>>].spawns[1].at
        IN  /\ \A n \in all :
                  LET e == log[<<s, n>>]
                  IN  /\ Len(e.spawns) <= 1
                      /\ ran(n) =>
                            /\ e.spawns[1].cmd = SuggestedCommands(s)[n]
                            /\ 0 < e.begun /\ e.begun < at(n)
                            /\ e.ended > 0 => at(n) < e.ended
                      /\ (e.begun > 0 /\ n > 1) =>
                            /\ ran(n - 1)
                            /\ 0 < log[<<s, n - 1>>].ended
                            /\ log[<<s, n - 1>>].ended < e.begun
                      /\ (ran(n) /\ SuggestedCommands(s)[n] = "node_modules/.bin/hardhat test") =>
                            \E m \in 1..(n - 1) :
                                /\ SuggestedCommands(s)[m] = "node_modules/.bin/hardhat compile"
                                /\ ran(m)
                                /\ at(m) < at(n)
            /\ (\A n \in all : testState[<<s, n>>] = "Passed") =>
                  \A n \in all : ran(n) /\ log[<<s, n>>].spawns[1].code = 0

C4_Witness ==
    /\ Done
    /\ \A n \in 1..4 : testState[<<"basic sample project", n>>] = "Passed"
    /\ \A n \in 1..11 : testState[<<"advanced sample project", n>>] = "Passed"
    /\ testState[<<"advanced TypeScript sample project", 2>>] = "Failed"

\* C5: when the project generation hook of a sample-project suite fails, no
\* test of that suite runs its body, and the other sample-project suites and
\* "no project" still run their hooks and tests.
C5_GenerationFailureIsolated ==
    \A s \in SampleSuites :
        s \in hookFailed =>
            /\ \A n \in 1..Len(Tests(s)) :
                  log[<<s, n>>] = NotRun /\ testState[<<s, n>>] = "Pending"
            /\ Done =>
                  \A o \in (SampleSuites \cup {"no project"}) \ {s} :
                      /\ HookRan(o, "useFixture")
                      /\ \/ o \in hookFailed
                         \/ \A n \in 1..Len(Tests(o)) : log[<<o, n>>].begun > 0

C5_Witness ==
    /\ Done
    /\ "advanced sample project" \in hookFailed
    /\ testState[<<"basic sample project", 4>>] = "Passed"
    /\ testState[<<"advanced TypeScript sample project", 11>>] = "Passed"
    /\ testState[CompileErrorTest] = "Passed"

\* C6: the compile test of "no project" passes exactly when the compile it
\* runs exits 1 with a stderr that matches /You are not inside/ and /HH15?/;
\* the compile is spawned in tolerant mode, so its exit code never fails the
\* test by itself.
C6_CompileErrorPassesIff ==
    LET sp == log[CompileErrorTest].spawns
    IN  /\ testState[CompileErrorTest] \in {"Passed", "Failed"} =>
              /\ Len(sp) = 1
              /\ testState[CompileErrorTest] = "Passed" <=>
                    /\ sp[1].code = 1
                    /\ RegExpTest(notInsideRegExp, sp[1].stderr)
                    /\ RegExpTest(hhCodeRegExp, sp[1].stderr)
        /\ testState[CompileErrorTest] = "Passed" =>
              sp[1].stderr \in {NotInsideHH1, NotInsideHH15}
        /\ ~FailedBy(CompileErrorTest, "CommandFailed")
        /\ (ProcInTest /\ ProcTest = CompileErrorTest) => ~proc.fatal

C6_Witness ==
    /\ testState[CompileErrorTest] = "Passed"
    /\ log[CompileErrorTest].spawns[1].code = 1
    /\ log[CompileErrorTest].spawns[1].stderr = NotInsideHH15

\* A compile that exited 1 with the message but no HH1 code failed the test
\* on an assertion.
C6_WitnessFailed ==
    /\ FailedBy(CompileErrorTest, "AssertionError")
    /\ log[CompileErrorTest].spawns[1].code = 1
    /\ log[CompileErrorTest].spawns[1].stderr = NotInsideNoCode

\* The passing counts the runs of cmd in test t reported.
ReportedCounts(t, cmd) ==
    UNION {PassingCounts(log[t].spawns[i].stdout) :
              i \in {j \in 1..Len(log[t].spawns) : log[t].spawns[j].cmd = cmd}}

\* C7 as stated: the parallel test and the serial (programmatic) test both
\* pass only if their runs reported the same passing count and no run
\* reported zero passing tests.
C7_Original ==
    (testState[ParallelTest] = "Passed" /\ testState[ProgrammaticTest] = "Passed") =>
        LET par == ReportedCounts(ParallelTest,
                                  "node_modules/.bin/hardhat test --parallel")
            ser == ReportedCounts(ProgrammaticTest,
                                  "node_modules/.bin/hardhat run ./scripts/multi-run-test.js")
        IN  par = ser /\ 0 \notin par /\ 0 \notin ser

CompileChecksMet(sq) ==
    /\ Len(sq) >= 2
    /\ sq[1].code = 0
    /\ sq[2].code = 0
    /\ sq[2].artifactsAfter
    /\ RegExpTest(compiledRegExp, sq[2].stdout)

\* C8: the compile test runs clean, then compile; it passes only if clean
\* exited 0, compile exited 0, the artifacts directory existed after compile
\* and compile's stdout matched the "Compiled N Solidity file(s)
\* successfully" pattern, and it ends failed when any of these is not so.
C8_CompileTestChecks ==
    LET sq == log[CompileTest].spawns
    IN  /\ Len(sq) >= 1 => sq[1].cmd = "node_modules/.bin/hardhat clean"
        /\ Len(sq) >= 2 =>
              /\ sq[2].cmd = "node_modules/.bin/hardhat compile"
              /\ sq[1].at < sq[2].at
        /\ testState[CompileTest] = "Passed" => CompileChecksMet(sq)
        /\ testState[CompileTest] = "Passed" =>
              sq[2].stdout \in {CompiledTwo, CompiledOne}
        /\ (testState[CompileTest] \in {"Passed", "Failed"} /\ ~CompileChecksMet(sq)) =>
              testState[CompileTest] = "Failed"

C8_Witness ==
    /\ testState[CompileTest] = "Passed"
    /\ log[CompileTest].spawns[2].stdout = CompiledOne

\* A compile that exited 0 and printed the message without leaving an
\* artifacts directory failed the test.
C8_WitnessFailed ==
    /\ testState[CompileTest] = "Failed"
    /\ Len(log[CompileTest].spawns) = 2
    /\ log[CompileTest].spawns[2].code = 0
    /\ log[CompileTest].spawns[2].stdout = CompiledTwo
    /\ ~log[CompileTest].spawns[2].artifactsAfter

FlagOf(s) ==
    CASE s = "basic sample project" ->
           "HARDHAT_CREATE_BASIC_SAMPLE_PROJECT_WITH_DEFAULTS"
      [] s = "advanced sample project" ->
           "HARDHAT_CREATE_ADVANCED_SAMPLE_PROJECT_WITH_DEFAULTS"
      [] s = "advanced TypeScript sample project" ->
           "HARDHAT_CREATE_ADVANCED_TYPESCRIPT_SAMPLE_PROJECT_WITH_DEFAULTS"

\* C9: a generation flag is set only in the environment of the generation
\* process of its own suite: process.env of the harness never holds one, and
\* every process a test spawns gets process.env as it is.
C9_GenerationFlagScoped ==
    /\ processEnv \cap GenerationFlags = {}
    /\ proc.cmd # "" =>
          IF proc.inHook
          THEN /\ proc.cmd = hardhatBinary
               /\ proc.suite \in SampleSuites
               /\ proc.env = processEnv \cup {FlagOf(proc.suite)}
          ELSE /\ proc.env = processEnv
               /\ proc.env \cap GenerationFlags = {}

\* Suggested commands and, later, a command of "no project" have been
\* spawned after the generation steps.
C9_Witness ==
    /\ HookRan("advanced TypeScript sample project", "generate.exec")
    /\ log[<<"advanced TypeScript sample project", 1>>].spawns # <<>>
    /\ ProcInTest
    /\ proc.suite = "no project"

\* The suites that hold tests.
LeafSuites == SampleSuites \cup {"basic-project", "no project"}

RECURSIVE AncestorsOrSelf(_)
AncestorsOrSelf(s) == IF s = Root THEN {s} ELSE {s} \cup AncestorsOrSelf(Parent(s))

\* The suites around each suite, itself included, and the kinds of the
\* before hooks of each.
Around == [s \in Suites |-> AncestorsOrSelf(s)]

BeforeHookKinds ==
    [s \in Suites |-> [h \in 1..Len(BeforeHooks(s)) |-> BeforeHooks(s)[h].kind]]

\* C10: when a test body begins, every before hook of its suite and of the
\* suites around it has run, those of an outer suite before those of an
\* inner one (no test of a suite begins before the suite's first test, so
\* the hooks are compared with the first test's beginning); the root hook that sets fail-fast mode is the first thing to
\* run, so every process but the tolerant compile is spawned in fail-fast
\* mode; and in a sample-project suite the skip check, the fixture
\* acquisition, the project generation and the first suggested command run
\* in that order.
C10_BeforeHooksOutermostFirst ==
    /\ clock > 0 => hookAt[<<Root, "shell.set(-e)">>] = 1
    /\ (proc.cmd # "" /\ (proc.inHook \/ ProcTest # CompileErrorTest)) => proc.fatal
    /\ \A t \in AllTests :
          log[t].begun > 0 =>
              0 < log[<<t[1], 1>>].begun /\ log[<<t[1], 1>>].begun <= log[t].begun
    /\ \A s \in LeafSuites :
          log[<<s, 1>>].begun > 0 =>
              \A a \in Around[s] :
                  \A h \in 1..Len(BeforeHookKinds[a]) :
                      LET ran == hookAt[<<a, BeforeHookKinds[a][h]>>]
                      IN  /\ 0 < ran /\ ran < log[<<s, 1>>].begun
                          /\ \A b \in Around[a] \ {a} :
                                \A g \in 1..Len(BeforeHookKinds[b]) :
                                    hookAt[<<b, BeforeHookKinds[b][g]>>] < ran
    /\ \A s \in SampleSuites :
          log[<<s, 1>>].begun > 0 =>
              /\ 0 < hookAt[<<"sample projects", "skipOnWindows">>]
              /\ hookAt[<<"sample projects", "skipOnWindows">>] < hookAt[<<s, "useFixture">>]
              /\ hookAt[<<s, "useFixture">>] < hookAt[<<s, "generate">>]
              /\ hookAt[<<s, "generate">>] < hookAt[<<s, "generate.exec">>]
              /\ hookAt[<<s, "generate.exec">>] < log[<<s, 1>>].begun
              /\ log[<<s, 1>>].spawns # <<>> =>
                    log[<<s, 1>>].begun < log[<<s, 1>>].spawns[1].at

C10_Witness ==
    /\ osType = "Linux"
    /\ log[<<"advanced sample project", 1>>].spawns # <<>>
    /\ log[CompileErrorTest].begun > 0

\* The order the suites that hold tests are to run in.
LeafOrder ==
    <<"basic-project", "basic sample project", "advanced sample project",
      "advanced TypeScript sample project", "no project">>

\* The first and the last test of a suite that holds tests.
FirstTest(s) == <<s, 1>>

LastTest == [s \in LeafSuites |-> <<s, Len(Tests(s))>>]

\* The hooks of the suites that hold tests.
LeafHookKinds == {"useFixture", "generate", "generate.exec", "release"}

\* C11: tests run one at a time in depth-first declaration order.  A running
\* test is the one the runner is at, so at most one is running, and a test
\* that is not running has either not begun or ended.  Within a
\* suite a test begins only after the test declared before it has ended; a
\* suite's first test begins only after the last test of every suite
\* declared before it has ended.  The hooks of a suite run after the tests of
\* the suites before it have ended and before the tests of the suites after
\* it begin, its teardown after its own tests.  A process a test spawned ran
\* between the test's beginning and its end, after the one the test spawned
\* before; and whenever the harness takes a step the process it spawned last
\* has exited, so no two processes are alive at once.
C11_OneAtATimeInDeclarationOrder ==
    /\ \A t \in AllTests :
          LET e == log[t]
          IN  IF e.begun = 0
              THEN e = NotRun /\ testState[t] \in {"Pending", "Skipped"}
              ELSE /\ testState[t] = "Running" => AtTest /\ CurTest = t /\ e.ended = 0
                   /\ testState[t] # "Running" => e.begun < e.ended
                   /\ t[2] > 1 =>
                         /\ 0 < log[<<t[1], t[2] - 1>>].ended
                         /\ log[<<t[1], t[2] - 1>>].ended < e.begun
                   /\ \A n \in 1..Len(e.spawns) :
                         /\ e.begun < e.spawns[n].at
                         /\ e.ended > 0 => e.spawns[n].at < e.ended
                         /\ n > 1 => e.spawns[n - 1].at < e.spawns[n].at
    /\ \A k \in 1..Len(LeafOrder) :
          LET s == LeafOrder[k]
          IN  /\ \A l \in 1..(k - 1) :
                    (log[FirstTest(s)].begun > 0 /\ log[FirstTest(LeafOrder[l])].begun > 0) =>
                        /\ 0 < log[LastTest[LeafOrder[l]]].ended
                        /\ log[LastTest[LeafOrder[l]]].ended < log[FirstTest(s)].begun
              /\ \A h \in LeafHookKinds :
                    LET ran == hookAt[<<s, h>>]
                    IN  ran > 0 =>
                          \A l \in 1..Len(LeafOrder) :
                              LET o == LeafOrder[l]
                              IN  log[FirstTest(o)].begun > 0 =>
                                      IF l < k \/ (l = k /\ h = "release")
                                      THEN /\ 0 < log[LastTest[o]].ended
                                           /\ log[LastTest[o]].ended < ran
                                      ELSE ran < log[FirstTest(o)].begun
    /\ proc.exited

\* A run in which every suite ran tests has ended.
C11_Witness ==
    /\ Done
    /\ log[<<"basic-project", 5>>].ended > 0
    /\ log[<<"basic sample project", 4>>].ended > 0
    /\ log[<<"advanced sample project", 11>>].ended > 0
    /\ log[<<"advanced TypeScript sample project", 11>>].ended > 0
    /\ log[CompileErrorTest].ended > 0
    /\ \E t \in AllTests : testState[t] = "Failed"

\* C12 as stated: a test changes state only from Pending to Running and from
\* Running to Passed, Failed or Skipped.
C12_Original ==
    [][\A t \in AllTests :
          testState'[t] # testState[t] =>
              <<testState[t], testState'[t]>> \in
                  {<<"Pending", "Running">>, <<"Running", "Passed">>,
                   <<"Running", "Failed">>, <<"Running", "Skipped">>}]_vars

\* C12: a test changes state only from Pending to Running and from Running
\* to Passed or Failed, or from Pending straight to Skipped; a test that is
\* Passed, Failed or Skipped never changes state again; and a body begins
\* only in a Pending test, so that no body is run twice.
C12_StateMachineNoRetry ==
    [][\A t \in AllTests :
          /\ testState'[t] # testState[t] =>
                <<testState[t], testState'[t]>> \in
                    {<<"Pending", "Running">>, <<"Running", "Passed">>,
                     <<"Running", "Failed">>, <<"Pending", "Skipped">>}
          /\ log'[t].begun # log[t].begun =>
                /\ testState[t] = "Pending"
                /\ testState'[t] = "Running"
                /\ log[t] = NotRun]_vars

\* A run has ended with tests skipped, passed and failed.
C12_Witness ==
    /\ Done
    /\ testState[<<"basic sample project", 1>>] = "Skipped"
    /\ \E t \in AllTests : testState[t] = "Failed" /\ log[t].begun > 0
    /\ \E t \in AllTests : testState[t] = "Passed" /\ log[t].begun > 0

\* The commands that build: compile, run and test.
BuildKinds == {"compile", "multiRun", "test"}

BasicProjectTests == {t \in AllTests : t[1] = "basic-project"}

C14_FailFastAtTestBoundaries ==
    /\ HookRan(Root, "shell.set(-e)") =>
          /\ pc = 0 => fatal
          /\ (AtTest /\ pc = 1) => fatal
          /\ (\E op \in AssertOps : AtStatement(op)) => fatal
          /\ ~fatal =>
                /\ AtTest
                /\ CurTest = CompileErrorTest
                /\ testState[CompileErrorTest] = "Running"
                /\ pc \in {2, 3}
                /\ CurBody[pc - 1].op \in {"shell.set", "exec"}
    /\ (proc.cmd # "" /\ ~proc.fatal) =>
          /\ ProcInTest
          /\ ProcTest = CompileErrorTest
          /\ proc.cmd = "node_modules/.bin/hardhat compile"
    /\ Len(log[CompileErrorTest].spawns) <= 1
    /\ \A t \in AllTests :
          log[t].ended > 0 => (fatal \/ (AtTest /\ CurTest = CompileErrorTest))

\* The compile of "no project" exited 0 in tolerant mode and the test then
\* failed on its first assertion, with fail-fast mode back in force.
C14_Witness ==
    /\ FailedBy(CompileErrorTest, "AssertionError")
    /\ Len(log[CompileErrorTest].spawns) = 1
    /\ log[CompileErrorTest].spawns[1].code = 0
    /\ proc.cmd = "node_modules/.bin/hardhat compile"
    /\ ~proc.fatal
    /\ fatal
    /\ pc = 0

\* C15 as stated, read in favour of the version test, which builds nothing
\* and spawns no clean: a test of "basic-project" that has passed left no
\* artifacts directory behind its last process, and if it ran a compile, run
\* or test command its last process was a clean that exited 0.
C15_Original ==
    \A t \in BasicProjectTests :
        testState[t] = "Passed" =>
            LET sp == log[t].spawns
                last == sp[Len(sp)]
            IN  /\ ~last.artifactsAfter
                /\ (\E n \in 1..Len(sp) : CmdKind(sp[n].cmd) \in BuildKinds) =>
                      CmdKind(last.cmd) = "clean" /\ last.code = 0

====
